---- MODULE Spec2Model ----
(***************************************************************************)
(* Model of the bencode decoder of src/src/lib.rs (Bencoding::decode and   *)
(* Bencoding::get with the private routines decode_dict, decode_string,    *)
(* decode_integer, decode_list and decode_next).                           *)
(*                                                                         *)
(* A byte is a number in 0..255, a slice &[u8] is a sequence of bytes.     *)
(* Every routine returns either Ret(value, rest) or Panic: the source has  *)
(* no error value (BencodingError is an empty enum), every failure is an   *)
(* index out of bounds or an unwrap of Err, which unwinds the whole call.  *)
(***************************************************************************)
EXTENDS Integers, Sequences, FiniteSets, TLC

\* ------------------------------------------------------------------ bytes

CH_e == 101
CH_colon == 58
CH_i == 105
CH_l == 108
CH_d == 100
CH_plus == 43
CH_minus == 45
CH_zero == 48
CH_nine == 57

\* &data[n..] for n <= Len(data) (the callers check the bound)
Drop(s, n) == SubSeq(s, n + 1, Len(s))

\* &data[..n] for n <= Len(data)
Take(s, n) == SubSeq(s, 1, n)

\* ---------------------------------------------------------------- results

\* a routine that panicked (index out of bounds, or unwrap of an Err)
Panic == [ok |-> FALSE, value |-> <<>>, data |-> <<>>]

\* a routine that returned (value, data)
Ret(v, d) == [ok |-> TRUE, value |-> v, data |-> d]

\* BencodingValue
String(s) == [tag |-> "String", val |-> s]

Integer(i) == [tag |-> "Integer", val |-> i]

Dict(d) == [tag |-> "Dict", val |-> d]

List(l) == [tag |-> "List", val |-> l]

\* HashMap::new()
EmptyMap == <<>>

\* HashMap::insert: the key maps to the new value, any older value is dropped
Insert(map, k, v) == (k :> v) @@ map

\* --------------------------------------------- numbers of 64 bits, base 10
\* A magnitude is its sequence of decimal digits without leading zeros
\* (<<>> is zero), so that the full 64 bit range is covered.

I64_MAX == <<9,2,2,3,3,7,2,0,3,6,8,5,4,7,7,5,8,0,7>>

I64_MIN == <<9,2,2,3,3,7,2,0,3,6,8,5,4,7,7,5,8,0,8>>

USIZE_MAX == <<1,8,4,4,6,7,4,4,0,7,3,7,0,9,5,5,1,6,1,5>>

RECURSIVE LexLe(_, _)
LexLe(a, b) ==
    IF a = <<>> THEN TRUE
    ELSE IF Head(a) # Head(b) THEN Head(a) < Head(b)
    ELSE LexLe(Tail(a), Tail(b))

\* a <= b on magnitudes
MagLe(a, b) == Len(a) < Len(b) \/ (Len(a) = Len(b) /\ LexLe(a, b))

\* result * 10 + d
MulAdd(mag, d) == IF mag = <<>> /\ d = 0 THEN <<>> ELSE Append(mag, d)

RECURSIVE ToMag(_)
ToMag(n) == IF n = 0 THEN <<>> ELSE Append(ToMag(n \div 10), n % 10)

RECURSIVE ToNat(_)
ToNat(mag) ==
    IF mag = <<>> THEN 0 ELSE 10 * ToNat(Take(mag, Len(mag) - 1)) + mag[Len(mag)]

\* an i64: sign and magnitude, zero has no sign
I64(neg, mag) == [neg |-> neg /\ mag # <<>>, mag |-> mag]

\* ------------------------------------------------------ std::str::from_utf8

Cont(b) == b \in 128..191

RECURSIVE from_utf8(_)
from_utf8(s) ==
    IF s = <<>> THEN TRUE
    ELSE LET b == Head(s)
             n == Len(s)
         IN  IF b < 128 THEN from_utf8(Tail(s))
             ELSE IF b \in 194..223
                  THEN n >= 2 /\ Cont(s[2]) /\ from_utf8(Drop(s, 2))
             ELSE IF b \in 224..239
                  THEN /\ n >= 3
                       /\ Cont(s[2]) /\ Cont(s[3])
                       /\ (b = 224 => s[2] >= 160)
                       /\ (b = 237 => s[2] <= 159)
                       /\ from_utf8(Drop(s, 3))
             ELSE IF b \in 240..244
                  THEN /\ n >= 4
                       /\ Cont(s[2]) /\ Cont(s[3]) /\ Cont(s[4])
                       /\ (b = 240 => s[2] >= 144)
                       /\ (b = 244 => s[2] <= 143)
                       /\ from_utf8(Drop(s, 4))
             ELSE FALSE

\* ----------------------------------------------------------- str::parse

NotANumber == [ok |-> FALSE, neg |-> FALSE, mag |-> <<>>]

\* the digit loop of from_str_radix: result = result * 10 (+ or -) digit,
\* with checked arithmetic against the limit of the type
RECURSIVE Accumulate(_, _, _)
Accumulate(digits, mag, limit) ==
    IF digits = <<>> THEN [ok |-> TRUE, neg |-> FALSE, mag |-> mag]
    ELSE LET c == Head(digits)
         IN  IF c < CH_zero \/ c > CH_nine THEN NotANumber
             ELSE LET m == MulAdd(mag, c - CH_zero)
                  IN  IF ~MagLe(m, limit) THEN NotANumber
                      ELSE Accumulate(Tail(digits), m, limit)

\* str::parse::<i64>()
parse_i64(s) ==
    IF s = <<>> THEN NotANumber
    ELSE IF Len(s) = 1 /\ s[1] \in {CH_plus, CH_minus} THEN NotANumber
    ELSE IF s[1] = CH_plus THEN Accumulate(Tail(s), <<>>, I64_MAX)
    ELSE IF s[1] = CH_minus
         THEN LET r == Accumulate(Tail(s), <<>>, I64_MIN)
              IN  [r EXCEPT !.neg = r.ok /\ r.mag # <<>>]
    ELSE Accumulate(s, <<>>, I64_MAX)

\* str::parse::<usize>()
parse_usize(s) ==
    IF s = <<>> THEN NotANumber
    ELSE IF Len(s) = 1 /\ s[1] \in {CH_plus, CH_minus} THEN NotANumber
    ELSE IF s[1] = CH_plus THEN Accumulate(Tail(s), <<>>, USIZE_MAX)
    ELSE Accumulate(s, <<>>, USIZE_MAX)

\* ------------------------------------------------------------ the parsers

\* while data[idx] != b { idx = idx + 1 }: the index of the first b at or
\* after idx, or -1 when the index runs past the end of the slice (a panic)
RECURSIVE Scan(_, _, _)
Scan(data, b, idx) ==
    IF idx >= Len(data) THEN -1
    ELSE IF data[idx + 1] = b THEN idx
    ELSE Scan(data, b, idx + 1)

\* decode_string with the payload read as text, as an earlier design did:
\* a payload that is not UTF-8 is refused
decode_string_as_text(data) ==
    LET separator_idx == Scan(data, CH_colon, 0)
    IN  IF separator_idx < 0 THEN Panic
        ELSE LET prefix == Take(data, separator_idx)
                 parsed == parse_usize(prefix)
                 data1  == Drop(data, separator_idx + 1)
             IN  IF ~from_utf8(prefix) THEN Panic
                 ELSE IF ~parsed.ok THEN Panic
                 ELSE IF ~MagLe(parsed.mag, ToMag(Len(data1))) THEN Panic
                 ELSE LET length == ToNat(parsed.mag)
                      IN  IF ~from_utf8(Take(data1, length)) THEN Panic
                          ELSE Ret(Take(data1, length), Drop(data1, length))

decode_string(data) ==
    LET separator_idx == Scan(data, CH_colon, 0)
    IN  IF separator_idx < 0 THEN Panic
        ELSE LET prefix == Take(data, separator_idx)
                 parsed == parse_usize(prefix)
                 data1  == Drop(data, separator_idx + 1)
             IN  IF ~from_utf8(prefix) THEN Panic
                 ELSE IF ~parsed.ok THEN Panic
                 ELSE IF ~MagLe(parsed.mag, ToMag(Len(data1))) THEN Panic
                 ELSE LET length == ToNat(parsed.mag)
                      IN  Ret(Take(data1, length), Drop(data1, length))

\* decode_integer with the sign parsed as for an unsigned number
decode_integer_unsigned(data) ==
    IF Len(data) < 1 THEN Panic
    ELSE LET data1 == Drop(data, 1)
             ending_idx == Scan(data1, CH_e, 0)
         IN  IF ending_idx < 0 THEN Panic
             ELSE LET text == Take(data1, ending_idx)
                      parsed == parse_usize(text)
                  IN  IF ~from_utf8(text) THEN Panic
                      ELSE IF ~parsed.ok THEN Panic
                      ELSE Ret(I64(parsed.neg, parsed.mag),
                               Drop(data1, ending_idx + 1))

decode_integer(data) ==
    IF Len(data) < 1 THEN Panic
    ELSE LET data1 == Drop(data, 1)
             ending_idx == Scan(data1, CH_e, 0)
         IN  IF ending_idx < 0 THEN Panic
             ELSE LET text == Take(data1, ending_idx)
                      parsed == parse_i64(text)
                  IN  IF ~from_utf8(text) THEN Panic
                      ELSE IF ~parsed.ok THEN Panic
                      ELSE Ret(I64(parsed.neg, parsed.mag),
                               Drop(data1, ending_idx + 1))

RECURSIVE decode_next(_)
RECURSIVE decode_list_loop(_, _)
RECURSIVE decode_dict_loop(_, _)

\* the loop of decode_list and the return after it
decode_list_loop(data, list) ==
    IF Len(data) < 1 THEN Panic
    ELSE IF data[1] = CH_e THEN Ret(list, data)
    ELSE LET r == decode_next(data)
         IN  IF ~r.ok THEN Panic
             ELSE decode_list_loop(r.data, Append(list, r.value))

decode_list(data) ==
    IF Len(data) < 1 THEN Panic
    ELSE decode_list_loop(Drop(data, 1), <<>>)

\* the loop of decode_dict and the return after it
decode_dict_loop(data, dict) ==
    IF Len(data) < 1 THEN Panic
    ELSE IF data[1] = CH_e THEN Ret(dict, data)
    ELSE LET k == decode_string(data)
         IN  IF ~k.ok THEN Panic
             ELSE LET v == decode_next(k.data)
                  IN  IF ~v.ok THEN Panic
                      ELSE decode_dict_loop(v.data, Insert(dict, k.value, v.value))

decode_dict(data) ==
    IF Len(data) < 1 THEN Panic
    ELSE decode_dict_loop(Drop(data, 1), EmptyMap)

decode_next(data) ==
    IF Len(data) < 1 THEN Panic
    ELSE IF data[1] = CH_i
         THEN LET r == decode_integer(data)
              IN  IF r.ok THEN Ret(Integer(r.value), r.data) ELSE Panic
    ELSE IF data[1] = CH_l
         THEN LET r == decode_list(data)
              IN  IF r.ok THEN Ret(List(r.value), r.data) ELSE Panic
    ELSE IF data[1] = CH_d
         THEN LET r == decode_dict(data)
              IN  IF r.ok THEN Ret(Dict(r.value), r.data) ELSE Panic
    ELSE LET r == decode_string(data)
         IN  IF r.ok THEN Ret(String(r.value), r.data) ELSE Panic

\* decode that refuses bytes after the dictionary
decode_strict(data) ==
    LET r == decode_dict(data)
    IN  IF r.ok /\ Len(r.data) = 1 THEN [ok |-> TRUE, dict |-> r.value]
        ELSE [ok |-> FALSE, dict |-> EmptyMap]

\* Bencoding::decode: Ok(Self { dict }), the rest of the slice is dropped
decode(data) ==
    LET r == decode_dict(data)
    IN  IF r.ok THEN [ok |-> TRUE, dict |-> r.value] ELSE [ok |-> FALSE, dict |-> EmptyMap]

\* Option<BencodingValue>
None == [some |-> FALSE, value |-> <<>>]

Some(v) == [some |-> TRUE, value |-> v]

\* the keys of the dictionaries nested in the values of a dictionary
NestedKeys(dict) ==
    UNION {DOMAIN dict[k].val : k \in {j \in DOMAIN dict : dict[j].tag = "Dict"}}

\* get that also looks into the nested dictionaries
get_nested(dict, key) ==
    IF key \in DOMAIN dict THEN Some(dict[key])
    ELSE IF key \in NestedKeys(dict)
         THEN LET k == CHOOSE j \in DOMAIN dict :
                           dict[j].tag = "Dict" /\ key \in DOMAIN dict[j].val
              IN  Some(dict[k].val[key])
    ELSE None

\* Bencoding::get
get(dict, key) ==
    IF key \notin DOMAIN dict THEN None ELSE Some(dict[key])

\* ------------------------------------------------- the encoded inputs
\* The buffers the routines are applied to are built from value trees by
\* the bencode grammar.  A tree is a String, an Integer, a List of trees or
\* a Pairs node: the (key, tree) pairs of a dictionary in encoded order,
\* where a key may occur more than once.

MaxPairs == 2
MaxElems == 2
MaxPayload == 2
MaxDigits == 2
MaxRaw == 3

SeqsUpTo(S, n) == UNION {[1..k -> S] : k \in 0..n}

Pairs(p) == [tag |-> "Pairs", val |-> p]

\* the decimal text of a magnitude
DecBytes(mag) ==
    IF mag = <<>> THEN <<CH_zero>> ELSE [k \in 1..Len(mag) |-> mag[k] + CH_zero]

\* the canonical decimal text of an i64
Canon(v) == (IF v.neg THEN <<CH_minus>> ELSE <<>>) \o DecBytes(v.mag)

\* <n>:<payload>
EncString(s) == DecBytes(ToMag(Len(s))) \o <<CH_colon>> \o s

RECURSIVE Enc(_)
RECURSIVE EncAll(_)
RECURSIVE EncPairs(_)
Enc(t) ==
    CASE t.tag = "String"  -> EncString(t.val)
      [] t.tag = "Integer" -> <<CH_i>> \o Canon(t.val) \o <<CH_e>>
      [] t.tag = "List"    -> <<CH_l>> \o EncAll(t.val) \o <<CH_e>>
      [] t.tag = "Pairs"   -> <<CH_d>> \o EncPairs(t.val) \o <<CH_e>>

EncAll(ts) == IF ts = <<>> THEN <<>> ELSE Enc(Head(ts)) \o EncAll(Tail(ts))

EncPairs(ps) ==
    IF ps = <<>> THEN <<>>
    ELSE EncString(Head(ps)[1]) \o Enc(Head(ps)[2]) \o EncPairs(Tail(ps))

KeysOf(ps) == {ps[k][1] : k \in 1..Len(ps)}

\* the last pair of ps whose key is key
LastIdx(ps, key) ==
    CHOOSE k \in 1..Len(ps) :
        /\ ps[k][1] = key
        /\ \A j \in (k + 1)..Len(ps) : ps[j][1] # key

DistinctKeys(ps) == \A j, k \in 1..Len(ps) : ps[j][1] = ps[k][1] => j = k

\* the value a tree stands for; in a dictionary the last pair of a key counts
RECURSIVE Sem(_)
Sem(t) ==
    CASE t.tag = "String"  -> String(t.val)
      [] t.tag = "Integer" -> Integer(t.val)
      [] t.tag = "List"    -> List([k \in 1..Len(t.val) |-> Sem(t.val[k])])
      [] t.tag = "Pairs"   ->
            Dict([key \in KeysOf(t.val) |-> Sem(t.val[LastIdx(t.val, key)][2])])

KeyA == <<97>>
KeyB == <<171, CH_colon>>
KeyN == <<110>>
KeyFake == <<102, 97, 107, 101>>

TopKeys == {KeyA, KeyB}

Minus18 == I64(TRUE, <<1, 8>>)

LeafS == [tag |-> "String", val |-> <<CH_e>>]
LeafI == [tag |-> "Integer", val |-> Minus18]

\* the values of dictionary pairs and list elements
Vals ==
    { LeafS, LeafI,
      [tag |-> "List", val |-> <<>>],
      [tag |-> "List", val |-> <<LeafI, LeafS>>],
      Pairs(<< <<KeyN, LeafS>> >>),
      [tag |-> "List", val |-> << Pairs(<< <<KeyA, LeafI>> >>), LeafI >>] }

TopDicts == {Pairs(p) : p \in SeqsUpTo(TopKeys \X Vals, MaxPairs)}

Lists == {[tag |-> "List", val |-> l] : l \in SeqsUpTo(Vals, MaxElems)}

\* bytes after the encoded value
Rests == {<<>>, <<CH_e>>, <<171, CH_colon>>, <<49, CH_colon, 97>>}

PayloadBytes == {0, CH_colon, CH_e, 171, 255}

Payloads ==
    SeqsUpTo(PayloadBytes, MaxPayload)
        \union {[k \in 1..n |-> b] : n \in 10..(10 + MaxPayload), b \in PayloadBytes}

\* the magnitudes of at most MaxDigits digits, and the two ends of the range
Mags == {m \in SeqsUpTo(0..9, MaxDigits) : m = <<>> \/ m[1] # 0}

IntVals ==
    {I64(n, m) : n \in BOOLEAN, m \in Mags}
        \union {I64(FALSE, I64_MAX), I64(TRUE, I64_MIN)}

\* integer texts that are not canonical: a leading zero, or -0
BadIntTexts ==
    {<<CH_minus, CH_zero>>}
        \union {s \o <<CH_zero>> \o DecBytes(m) :
                    s \in {<<>>, <<CH_minus>>},
                    m \in SeqsUpTo(0..9, MaxDigits) \ {<<>>}}

RawBytes == {CH_d, CH_e, CH_i, CH_l, CH_colon, CH_zero, 49, CH_minus}

Prefixes(s) == {Take(s, n) : n \in 0..(Len(s) - 1)}

\* malformed buffers: short byte sequences and truncated encodings
RawInputs ==
    SeqsUpTo(RawBytes, MaxRaw)
        \union UNION {Prefixes(Enc(Pairs(<<p>>))) : p \in TopKeys \X Vals}

\* --------------------------------------------------------- the state machine

VARIABLES
    input,   \* what the buffer was built from: [kind, val, rest]
    data,    \* the buffer handed to the routine
    call,    \* the routine that was applied: "none" before the call
    out,     \* what it returned (Panic when it panicked)
    lastkey, \* the key of the last get
    found,   \* the result of the last get
    stack,   \* the frames of the routines decode has entered, the last on top
    ret      \* what the routine that returned last returned

vars == <<input, data, call, out, lastkey, found, stack, ret>>

\* no BencodingValue
NoValue == [tag |-> "None", val |-> <<>>]

\* what a routine returned: decode_next a value, decode_dict a dict and
\* decode_list a list, each with the rest of the slice
Returned(fn, value, dict, list, d) ==
    [fn |-> fn, value |-> value, dict |-> dict, list |-> list, data |-> d]

\* nothing has returned
NoReturn == Returned("none", NoValue, EmptyMap, <<>>, <<>>)

In(kind, val, rest) == [kind |-> kind, val |-> val, rest |-> rest]

Build(in) ==
    CASE in.kind \in {"dict", "list"} -> Enc(in.val) \o in.rest
      [] in.kind = "int"    -> <<CH_i>> \o Canon(in.val) \o <<CH_e>> \o in.rest
      [] in.kind = "badint" -> <<CH_i>> \o in.val \o <<CH_e>> \o in.rest
      [] in.kind = "string" -> EncString(in.val) \o in.rest
      [] in.kind = "raw"    -> in.val

Start(in) ==
    /\ input = in
    /\ data = Build(in)
    /\ call = "none"
    /\ out = Panic
    /\ lastkey = <<>>
    /\ found = None
    /\ stack = <<>>
    /\ ret = NoReturn

Init ==
    \/ \E t \in TopDicts, r \in Rests : Start(In("dict", t, r))
    \/ \E t \in Lists, r \in Rests : Start(In("list", t, r))
    \/ \E v \in IntVals, r \in Rests : Start(In("int", v, r))
    \/ \E s \in BadIntTexts, r \in Rests : Start(In("badint", s, r))
    \/ \E s \in Payloads, r \in Rests : Start(In("string", s, r))
    \/ \E s \in RawInputs : Start(In("raw", s, <<>>))

\* Bencoding::decode(data)
Decode ==
    /\ call = "none"
    /\ input.kind \in {"dict", "raw"}
    /\ call' = "decode"
    /\ out' = decode(data)
    /\ UNCHANGED <<input, data, lastkey, found, stack, ret>>

\* decode_string(data), as decode_dict calls it on a key and decode_next on a value
DecodeString ==
    /\ call = "none"
    /\ input.kind \in {"string", "raw"}
    /\ call' = "decode_string"
    /\ out' = decode_string(data)
    /\ UNCHANGED <<input, data, lastkey, found, stack, ret>>

\* decode_next(data), as the loops of decode_dict and decode_list call it
DecodeNext ==
    /\ call = "none"
    /\ input.kind \in {"int", "badint", "list", "raw"}
    /\ call' = "decode_next"
    /\ out' = decode_next(data)
    /\ UNCHANGED <<input, data, lastkey, found, stack, ret>>

GetKeys == {KeyA, KeyB, KeyN, KeyFake}

\* parser.get(key) on the decoded document
Get(key) ==
    /\ call \in {"decode", "get"}
    /\ out.ok
    /\ call' = "get"
    /\ lastkey' = key
    /\ found' = get(out.dict, key)
    /\ UNCHANGED <<input, data, out, stack, ret>>

Next ==
    \/ Decode
    \/ DecodeString
    \/ DecodeNext
    \/ \E key \in GetKeys : Get(key)

Spec == Init /\ [][Next]_vars

\* ------------------------------------------------- decode, step by step
\* The same routines with one action for each call, loop test and return of
\* decode, decode_dict, decode_list and decode_next; decode_string and
\* decode_integer, which call nothing, are applied in one step.  A frame
\* holds a routine's slice as it was passed (arg) and as it stands (data).

Frame(fn, pc, d) ==
    [fn |-> fn, pc |-> pc, arg |-> d, data |-> d, key |-> <<>>,
     dict |-> EmptyMap, list |-> <<>>]


Top == stack[Len(stack)]

At(fn, pc) == stack # <<>> /\ Top.fn = fn /\ Top.pc = pc

Same == UNCHANGED <<input, data, lastkey, found>>

\* the top frame goes on as f
Goto(f) ==
    /\ stack' = [stack EXCEPT ![Len(stack)] = f]
    /\ UNCHANGED <<call, out, ret>>
    /\ Same

\* decode_next returns (v, d)
Value(v, d) == Returned("decode_next", v, EmptyMap, <<>>, d)

\* the top frame goes on as f and calls fn(d)
Call(f, fn, d) ==
    /\ stack' = Append([stack EXCEPT ![Len(stack)] = f], Frame(fn, "enter", d))
    /\ UNCHANGED <<call, out, ret>>
    /\ Same

\* the top frame returns r to its caller
Return(r) ==
    /\ stack' = Take(stack, Len(stack) - 1)
    /\ ret' = r
    /\ UNCHANGED <<call, out>>
    /\ Same

\* a panic unwinds every frame: decode does not return
Unwind ==
    /\ stack' = <<>>
    /\ ret' = NoReturn
    /\ call' = "decode"
    /\ out' = [ok |-> FALSE, dict |-> EmptyMap]
    /\ Same

StartSteps(in) ==
    /\ input = in
    /\ data = Build(in)
    /\ call = "none"
    /\ out = Panic
    /\ lastkey = <<>>
    /\ found = None
    /\ stack = <<Frame("decode", "enter", Build(in))>>
    /\ ret = NoReturn

InitSteps ==
    \/ \E t \in TopDicts, r \in Rests : StartSteps(In("dict", t, r))
    \/ \E s \in RawInputs : StartSteps(In("raw", s, <<>>))

\* line 21: Self::decode_dict(data)
DecodeCall ==
    /\ At("decode", "enter")
    /\ Call([Top EXCEPT !.pc = "ret"], "decode_dict", Top.data)

\* lines 21-23: let (dict, _) = ...; return Ok(Self { dict })
DecodeReturn ==
    /\ At("decode", "ret")
    /\ stack' = <<>>
    /\ call' = "decode"
    /\ out' = [ok |-> TRUE, dict |-> ret.dict]
    /\ UNCHANGED ret
    /\ Same

\* lines 35-39: data = &data[1..]; dict = HashMap::new()
DictEnter ==
    /\ At("decode_dict", "enter")
    /\ IF Len(Top.data) < 1 THEN Unwind
       ELSE Goto([Top EXCEPT !.data = Drop(Top.data, 1), !.dict = EmptyMap,
                             !.pc = "loop"])

\* lines 40-44 and 51: the test of the loop, and the return after the break
DictLoop ==
    /\ At("decode_dict", "loop")
    /\ IF Len(Top.data) < 1 THEN Unwind
       ELSE IF Top.data[1] = CH_e
            THEN Return(Returned("decode_dict", NoValue, Top.dict, <<>>, Top.data))
       ELSE Goto([Top EXCEPT !.pc = "key"])

\* line 46: (key, data) = Self::decode_string(data)
DictKey ==
    /\ At("decode_dict", "key")
    /\ LET r == decode_string(Top.data)
       IN  IF ~r.ok THEN Unwind
           ELSE Goto([Top EXCEPT !.key = r.value, !.data = r.data, !.pc = "next"])

\* line 47: Self::decode_next(data)
DictCallNext ==
    /\ At("decode_dict", "next")
    /\ Call([Top EXCEPT !.pc = "value"], "decode_next", Top.data)

\* lines 47-48: (value, data) = ...; dict.insert(key, value)
DictInsert ==
    /\ At("decode_dict", "value")
    /\ Goto([Top EXCEPT !.dict = Insert(Top.dict, Top.key, ret.value),
                        !.data = ret.data, !.pc = "loop"])

\* lines 90-93: data = &data[1..]; list = Vec::new()
ListEnter ==
    /\ At("decode_list", "enter")
    /\ IF Len(Top.data) < 1 THEN Unwind
       ELSE Goto([Top EXCEPT !.data = Drop(Top.data, 1), !.list = <<>>,
                             !.pc = "loop"])

\* lines 94-100 and 104: the test of the loop, the return after the break,
\* and the call Self::decode_next(data)
ListLoop ==
    /\ At("decode_list", "loop")
    /\ IF Len(Top.data) < 1 THEN Unwind
       ELSE IF Top.data[1] = CH_e
            THEN Return(Returned("decode_list", NoValue, EmptyMap, Top.list, Top.data))
       ELSE Call([Top EXCEPT !.pc = "value"], "decode_next", Top.data)

\* the loop of decode_list with the slice left where it was
ListPushKeepData ==
    /\ At("decode_list", "value")
    /\ Goto([Top EXCEPT !.list = Append(Top.list, ret.value), !.pc = "loop"])

\* lines 100-101: (value, data) = ...; list.push(value)
ListPush ==
    /\ At("decode_list", "value")
    /\ Goto([Top EXCEPT !.list = Append(Top.list, ret.value),
                        !.data = ret.data, !.pc = "loop"])

\* line 108: match data[0] on an empty slice
NextEmpty ==
    /\ At("decode_next", "enter")
    /\ Len(Top.data) < 1
    /\ Unwind

\* lines 109-112
NextInteger ==
    /\ At("decode_next", "enter")
    /\ Len(Top.data) >= 1
    /\ Top.data[1] = CH_i
    /\ LET r == decode_integer(Top.data)
       IN  IF ~r.ok THEN Unwind ELSE Return(Value(Integer(r.value), r.data))

\* line 114: Self::decode_list(&data)
NextList ==
    /\ At("decode_next", "enter")
    /\ Len(Top.data) >= 1
    /\ Top.data[1] = CH_l
    /\ Call([Top EXCEPT !.pc = "list"], "decode_list", Top.data)

\* line 115
NextListReturn ==
    /\ At("decode_next", "list")
    /\ Return(Value(List(ret.list), ret.data))

\* line 118: Self::decode_dict(&data)
NextDict ==
    /\ At("decode_next", "enter")
    /\ Len(Top.data) >= 1
    /\ Top.data[1] = CH_d
    /\ Call([Top EXCEPT !.pc = "dict"], "decode_dict", Top.data)

\* line 119
NextDictReturn ==
    /\ At("decode_next", "dict")
    /\ Return(Value(Dict(ret.dict), ret.data))

\* lines 121-124
NextString ==
    /\ At("decode_next", "enter")
    /\ Len(Top.data) >= 1
    /\ Top.data[1] \notin {CH_i, CH_l, CH_d}
    /\ LET r == decode_string(Top.data)
       IN  IF ~r.ok THEN Unwind ELSE Return(Value(String(r.value), r.data))

NextSteps ==
    \/ DecodeCall
    \/ DecodeReturn
    \/ DictEnter
    \/ DictLoop
    \/ DictKey
    \/ DictCallNext
    \/ DictInsert
    \/ ListEnter
    \/ ListLoop
    \/ ListPush
    \/ NextEmpty
    \/ NextInteger
    \/ NextList
    \/ NextListReturn
    \/ NextDict
    \/ NextDictReturn
    \/ NextString

\* decode is one call on one thread: a step that can be taken is taken
SpecSteps == InitSteps /\ [][NextSteps]_vars /\ WF_vars(NextSteps)

\* the steps end where decode ends
StepsAgree == (call = "decode" /\ stack = <<>>) => out = decode(data)

\* ------------------------------------------------------------ the claims

Called(fn, kind) == call = fn /\ input.kind = kind

Decoded(kind) == call \in {"decode", "get"} /\ input.kind = kind

\* C1: decoding the encoding of a top-level dictionary with pairwise distinct
\* keys gives a document where get(ki) is the decoded vi for every pair, also
\* for the pairs after a nested list or dict, and that has no other key
C1_EveryPairDecoded ==
    (Decoded("dict") /\ DistinctKeys(input.val.val)) =>
        LET ps == input.val.val
        IN  /\ out.ok
            /\ DOMAIN out.dict = KeysOf(ps)
            /\ \A k \in 1..Len(ps) : get(out.dict, ps[k][1]) = Some(Sem(ps[k][2]))

\* C2: on every buffer, the empty one and the truncated ones included, no
\* routine panics
C2_NoPanic ==
    call \in {"decode", "decode_string", "decode_next"} => out.ok

\* C3: on <n>:<payload><rest> the string parser returns the payload byte for
\* byte and the rest as the remainder, whatever bytes the payload holds
C3_StringPayloadExact ==
    Called("decode_string", "string") => out = Ret(input.val, input.rest)

C3_Witness ==
    /\ Called("decode_string", "string")
    /\ input.val = <<171, CH_colon>>
    /\ input.rest = <<CH_e>>
    /\ out = Ret(<<171, CH_colon>>, <<CH_e>>)

\* C4: i<v>e<rest> with v in canonical decimal decodes to Integer(v), of either
\* sign, with the remainder just past the e
C4_IntegerDecoded ==
    Called("decode_next", "int") => out = Ret(Integer(input.val), input.rest)

C4_Witness ==
    /\ Called("decode_next", "int")
    /\ input.val = Minus18
    /\ input.rest = <<CH_e>>
    /\ out = Ret(Integer(Minus18), <<CH_e>>)

\* C5: an integer text with a leading zero (other than "0"), or -0, is
\* refused and never gives an Integer
C5_LeadingZeroRejected ==
    Called("decode_next", "badint") => ~out.ok

\* get(key) is the value of key when key is a key of the top-level
\* dictionary and None otherwise; a key that is only in a nested dictionary
\* is not found
C6_GetResult ==
    call = "get" =>
        /\ found.some <=> lastkey \in DOMAIN out.dict
        /\ found.some => found.value = out.dict[lastkey]
        /\ (input.kind = "dict" /\ lastkey \notin KeysOf(input.val.val))
               => found = None

\* get leaves the document as it is and gives the same result when it is
\* called again with the same key
C6_GetPure ==
    call' = "get" =>
        /\ call \in {"decode", "get"} /\ out' = out
        /\ (call = "get" /\ lastkey' = lastkey) => found' = found

\* C6: get is a lookup in the top-level dictionary only (C6_GetResult in
\* every state) that changes nothing and repeats its result (C6_GetPure on
\* every step)
C6_TopLevelLookup == []C6_GetResult /\ [][C6_GetPure]_vars

C6_Witness ==
    /\ Decoded("dict")
    /\ call = "get"
    /\ lastkey = KeyN
    /\ KeyN \in NestedKeys(out.dict)
    /\ found = None

\* C7: bytes after the first complete dictionary change nothing: decoding E
\* followed by T succeeds and gives the document that decoding E gives
C7_TrailingBytesIgnored ==
    Decoded("dict") => out.ok /\ out = decode(Enc(input.val))

C7_Witness ==
    /\ Decoded("dict")
    /\ input.rest = <<171, CH_colon>>
    /\ Len(input.val.val) = 2
    /\ out.ok
    /\ DOMAIN out.dict = TopKeys

\* C8: a key that occurs more than once is in the mapping once, with the
\* value of its last occurrence
C8_LastOccurrenceWins ==
    (Decoded("dict") /\ ~DistinctKeys(input.val.val)) =>
        LET ps == input.val.val
        IN  /\ out.ok
            /\ DOMAIN out.dict = KeysOf(ps)
            /\ \A key \in KeysOf(ps) : out.dict[key] = Sem(ps[LastIdx(ps, key)][2])

\* C9: the list parser gives the elements of l v1 ... vn e in order and
\* consumes the terminating e: the remainder starts just past it
C9_ListDecoded ==
    Called("decode_next", "list") => out = Ret(Sem(input.val), input.rest)

StrictSuffix(a, b) == Len(a) < Len(b) /\ a = Drop(b, Len(b) - Len(a))

\* a routine returns a strictly shorter suffix of the slice it was given
ReturnShrinks ==
    (Len(stack') = Len(stack) - 1) => StrictSuffix(ret'.data, Top.arg)

\* a step of a loop that moves the slice of its frame moves it to a strictly
\* shorter suffix, and a turn of the loop does move it
LoopShrinks ==
    \A k \in 1..Len(stack) :
        k <= Len(stack') =>
            /\ stack'[k].data # stack[k].data
                   => StrictSuffix(stack'[k].data, stack[k].data)
            /\ (stack[k].pc \in {"key", "value"}
                    /\ stack'[k].pc \in {"next", "loop"})
                   => stack'[k].data # stack[k].data

\* C10: every call and every turn of the list and dict loops leaves a
\* strictly shorter suffix of the slice or ends the decode in failure, and
\* decode comes to an end on every buffer
C10_Terminates ==
    /\ [][ReturnShrinks /\ LoopShrinks]_vars
    /\ <>(stack = <<>>)

C10_Witness ==
    /\ call = "decode"
    /\ stack = <<>>
    /\ out.ok
    /\ input.kind = "dict"
    /\ Len(input.val.val) = 2
    /\ DOMAIN out.dict = TopKeys
====
